---------------------------- MODULE Spec2Model ----------------------------
(***************************************************************************)
(* Model of account.statement.import.sheet.parser                          *)
(* (account_statement_import_txt_xlsx/models/                              *)
(*  account_statement_import_sheet_parser.py).                             *)
(*                                                                         *)
(* One call of parse() is a run of the state machine: the header is read,  *)
(* the sixteen logical fields are resolved to physical column indexes,     *)
(* every data row goes through _parse_row, and the statement is assembled  *)
(* (sort, balances, one transaction per line).  A Python exception ends    *)
(* the run in pc = "raised" with its class name in err.                    *)
(*                                                                         *)
(* Text is a sequence of one-character strings, so that split, strip,      *)
(* replace, join, int(), Decimal() and strptime() are computed on the      *)
(* characters.  A Python value is a record [ty, s, neg, n, frac]:          *)
(*   str       s    = the characters                                       *)
(*   Decimal   neg, n, frac : (-1)^neg * n * 10^(-frac)                    *)
(*   float     neg, n, frac : the same reading; the floats of the model    *)
(*             are multiples of 1/4, which binary floating point holds     *)
(*             exactly                                                     *)
(*   int       neg, n                                                      *)
(*   datetime  n    = days since 1899-12-31                                *)
(*   None                                                                  *)
(***************************************************************************)
EXTENDS Integers, Sequences, FiniteSets, TLC

VARIABLES
    kind,        \* "csv" | "xlsx": what xlrd.open_workbook made of data_file
    mapping,     \* the mapping record (column specs, no_header, debit_value, ...)
    file,        \* the physical rows of the source, first row included
    pc,          \* "open" | "resolve" | "rows" | "done" | "raised"
    header,      \* False (<<>>) or the header texts
    columns,     \* logical field -> list of physical column indexes
    pos,         \* 1-based position of the next physical row to read
    lines,       \* the lines _parse_rows has collected
    fed,         \* history: the rows handed to _parse_row, in order
    last,        \* history: the last call of _parse_row
    err,         \* the exception that ended the run, "" if none
    result       \* what parse() returned

vars == <<kind, mapping, file, pc, header, columns, pos, lines, fed, last, err, result>>

---------------------------------------------------------------------------
(* Text *)

Digit == [c \in {"0", "1", "2", "3", "4", "5", "6", "7", "8", "9"} |->
            CASE c = "0" -> 0 [] c = "1" -> 1 [] c = "2" -> 2 [] c = "3" -> 3
              [] c = "4" -> 4 [] c = "5" -> 5 [] c = "6" -> 6 [] c = "7" -> 7
              [] c = "8" -> 8 [] c = "9" -> 9]

DigitChar == <<"0", "1", "2", "3", "4", "5", "6", "7", "8", "9">>

IsDigit(c) == c \in DOMAIN Digit

AllDigits(s) == \A i \in 1..Len(s) : IsDigit(s[i])

RECURSIVE NatOf(_)
\* the number a run of digits writes
NatOf(s) ==
    IF s = <<>> THEN 0
    ELSE 10 * NatOf(SubSeq(s, 1, Len(s) - 1)) + Digit[s[Len(s)]]

RECURSIVE DigitsOf(_)
\* str(n) for a natural number
DigitsOf(n) ==
    IF n < 10 THEN <<DigitChar[n + 1]>>
    ELSE DigitsOf(n \div 10) \o <<DigitChar[(n % 10) + 1]>>

RECURSIVE Pow10(_)
Pow10(k) == IF k = 0 THEN 1 ELSE 10 * Pow10(k - 1)

RECURSIVE LStrip(_)
LStrip(s) == IF s # <<>> /\ s[1] = " " THEN LStrip(Tail(s)) ELSE s

RECURSIVE RStrip(_)
RStrip(s) ==
    IF s # <<>> /\ s[Len(s)] = " " THEN RStrip(SubSeq(s, 1, Len(s) - 1)) ELSE s

\* str.strip()
Strip(s) == RStrip(LStrip(s))

\* the first position of character c in s, 0 if there is none
Find(s, c) ==
    IF \E i \in 1..Len(s) : s[i] = c
    THEN CHOOSE i \in 1..Len(s) : s[i] = c /\ \A j \in 1..(i - 1) : s[j] # c
    ELSE 0

RECURSIVE Split(_, _)
\* str.split(c)
Split(s, c) ==
    IF Find(s, c) = 0 THEN <<s>>
    ELSE <<SubSeq(s, 1, Find(s, c) - 1)>>
         \o Split(SubSeq(s, Find(s, c) + 1, Len(s)), c)

RECURSIVE Replace(_, _, _)
\* str.replace(old, new) for a one-character old
Replace(s, old, new) ==
    IF s = <<>> THEN <<>>
    ELSE (IF s[1] = old THEN new ELSE <<s[1]>>) \o Replace(Tail(s), old, new)

RECURSIVE Join(_)
\* " ".join(l)
Join(l) ==
    IF l = <<>> THEN <<>>
    ELSE IF Len(l) = 1 THEN l[1]
    ELSE l[1] \o <<" ">> \o Join(Tail(l))

\* os.path.basename
RECURSIVE Basename(_)
Basename(s) ==
    IF Find(s, "/") = 0 THEN s ELSE Basename(SubSeq(s, Find(s, "/") + 1, Len(s)))

---------------------------------------------------------------------------
(* Python values *)

Val(ty, s, neg, n, frac) == [ty |-> ty, s |-> s, neg |-> neg, n |-> n, frac |-> frac]

Str(s) == Val("str", s, FALSE, 0, 0)
Dec(neg, n, frac) == Val("Decimal", <<>>, neg, n, frac)
IntV(i) == Val("int", <<>>, i < 0, IF i < 0 THEN -i ELSE i, 0)
DateTime(d) == Val("datetime", <<>>, FALSE, d, 0)
\* datetime.date(): the day alone
DateOf(v) == Val("date", <<>>, FALSE, v.n, 0)
\* a spreadsheet cell of type XL_CELL_DATE holding serial number d
XlDate(d) == Val("xldate", <<>>, FALSE, d, 0)
None == Val("None", <<>>, FALSE, 0, 0)

RECURSIVE Reduced(_, _)
\* n / 10^frac without the trailing zeros of the fraction, as <<n, frac>>
Reduced(n, frac) ==
    IF frac > 0 /\ n % 10 = 0 THEN Reduced(n \div 10, frac - 1) ELSE <<n, frac>>

Float(neg, n, frac) ==
    Val("float", <<>>, neg, Reduced(n, frac)[1], Reduced(n, frac)[2])

IsNumber(v) == v.ty \in {"Decimal", "float", "int"}

\* bool(v)
Truthy(v) ==
    CASE v.ty = "str" -> v.s # <<>>
      [] IsNumber(v) -> v.n # 0
      [] v.ty = "None" -> FALSE
      [] OTHER -> TRUE

\* the number v * 10^k as an integer, for k >= v.frac
Scaled(v, k) == (IF v.neg THEN -1 ELSE 1) * v.n * Pow10(k - v.frac)

Max(a, b) == IF a >= b THEN a ELSE b

\* a result: a value, or the exception raised instead
Ok(v) == [ok |-> TRUE, v |-> v, err |-> ""]
Raise(e) == [ok |-> FALSE, v |-> None, err |-> e]

---------------------------------------------------------------------------
(* Conversions *)

RECURSIVE ZeroPad(_, _)
\* s with zeros in front, to k characters
ZeroPad(s, k) == IF Len(s) >= k THEN s ELSE ZeroPad(<<"0">> \o s, k)

Sign(v) == IF v.neg THEN <<"-">> ELSE <<>>

\* the digits of n / 10^frac with frac > 0: "5.50"
PointText(n, frac) ==
    DigitsOf(n \div Pow10(frac)) \o <<".">> \o ZeroPad(DigitsOf(n % Pow10(frac)), frac)

\* str(v): a Decimal keeps its exponent ("5.50"), a float is the shortest
\* repr with at least one fraction digit ("5.5", "5.0"), an int is plain
PyStr(v) ==
    CASE v.ty = "str" -> v.s
      [] v.ty = "int" -> Sign(v) \o DigitsOf(v.n)
      [] v.ty = "Decimal" ->
            IF v.frac = 0 THEN Sign(v) \o DigitsOf(v.n)
            ELSE Sign(v) \o PointText(v.n, v.frac)
      [] v.ty = "float" ->
            IF v.frac = 0 THEN Sign(v) \o DigitsOf(v.n) \o <<".", "0">>
            ELSE Sign(v) \o PointText(v.n, v.frac)
      [] OTHER -> <<"N", "o", "n", "e">>

HasSign(t) == t # <<>> /\ t[1] \in {"-", "+"}

Unsigned(t) == IF HasSign(t) THEN Tail(t) ELSE t

DecimalOfDigits(neg, ip, fp) ==
    IF AllDigits(ip) /\ AllDigits(fp) /\ Len(ip) + Len(fp) > 0
    THEN Ok(Dec(neg, NatOf(ip \o fp), Len(fp)))
    ELSE Raise("InvalidOperation")

DecimalOfBody(neg, body, dot) ==
    DecimalOfDigits(neg,
                    IF dot = 0 THEN body ELSE SubSeq(body, 1, dot - 1),
                    IF dot = 0 THEN <<>> ELSE SubSeq(body, dot + 1, Len(body)))

DecimalOfStripped(t) ==
    DecimalOfBody(t # <<>> /\ t[1] = "-", Unsigned(t), Find(Unsigned(t), "."))

\* Decimal(text): surrounding blanks are dropped, then an optional sign,
\* digits and at most one point, with a digit before or after it
\* (exponents, NaN and Infinity are outside the alphabet of the model);
\* anything else raises decimal.InvalidOperation
DecimalOfText(s) == DecimalOfStripped(Strip(s))

IntOfStripped(t) ==
    IF Unsigned(t) # <<>> /\ AllDigits(Unsigned(t))
    THEN Ok(IntV(IF t[1] = "-" THEN -NatOf(Unsigned(t)) ELSE NatOf(Unsigned(t))))
    ELSE Raise("ValueError")

\* int(text): surrounding blanks dropped, an optional sign, digits
IntOfText(s) == IntOfStripped(Strip(s))

DayOfDigits(d) ==
    IF d # <<>> /\ AllDigits(d) /\ NatOf(d) \in 1..31
    THEN Ok(DateTime(NatOf(d)))
    ELSE Raise("ValueError")

\* datetime.strptime(text, "%d"): the day of the month, one or two
\* characters (3[0-1] | [1-2]d | 0[1-9] | [1-9] | blank [1-9]), of January
\* 1900; the model knows no other format
Strptime(s, format) ==
    IF format = <<"%", "d">> /\ Len(s) \in {1, 2}
    THEN DayOfDigits(IF Len(s) = 2 /\ s[1] = " " THEN <<s[2]>> ELSE s)
    ELSE Raise("ValueError")

\* xlrd.xldate.xldate_as_datetime(serial, datemode = 0): the epoch is
\* 1899-12-31 below serial 60 and 1899-12-30 from there on (the leap day
\* 1900-02-29 that Excel counts and the calendar has not)
xldate_as_datetime(serial) ==
    DateTime(IF serial < 60 THEN serial ELSE serial - 1)

\* abs(v)
Abs(v) == [v EXCEPT !.neg = FALSE]

\* -v; a zero result is positive
Negate(v) == [v EXCEPT !.neg = (v.n # 0 /\ ~v.neg)]

\* v or 0
OrZero(v) == IF Truthy(v) THEN v ELSE IntV(0)

\* Decimal.copy_abs(): only a Decimal has it
copy_abs(v) ==
    IF v.ty = "Decimal" THEN Ok(Abs(v)) ELSE Raise("AttributeError")

\* Decimal.copy_sign(other): other is a Decimal or an int
copy_sign(v, other) ==
    IF v.ty # "Decimal" THEN Raise("AttributeError")
    ELSE IF other.ty \notin {"Decimal", "int"} THEN Raise("TypeError")
    ELSE Ok([v EXCEPT !.neg = other.neg])

SignedDec(d, frac) == Dec(d < 0, IF d < 0 THEN -d ELSE d, frac)

\* a - b of a Decimal and a Decimal or int, exact
Minus(a, b) ==
    SignedDec(Scaled(a, Max(a.frac, b.frac)) - Scaled(b, Max(a.frac, b.frac)),
              Max(a.frac, b.frac))

\* float(v)
ToFloat(v) == Float(v.neg, v.n, v.frac)

---------------------------------------------------------------------------
(* The parser *)

_get_column_names ==
    << "timestamp_column", "currency_column", "amount_column",
       "amount_debit_column", "amount_credit_column", "balance_column",
       "original_currency_column", "original_amount_column",
       "debit_credit_column", "transaction_id_column", "description_column",
       "notes_column", "reference_column", "partner_name_column",
       "bank_name_column", "bank_account_column" >>

ColumnNames == {_get_column_names[i] : i \in DOMAIN _get_column_names}

\* mapping._get_float_separators(): (thousands, decimal)
_get_float_separators(m) == <<m.float_thousands_sep, m.float_decimal_sep>>

\* the number a Python int value stands for
IntOf(v) == IF v.neg THEN -v.n ELSE v.n

\* a list, or the exception raised instead
OkList(l) == [ok |-> TRUE, l |-> l, err |-> ""]
RaiseList(e) == [ok |-> FALSE, l |-> <<>>, err |-> e]

\* header.index(tok) as it would be if a name the header lacks were passed
\* over
HeaderIndexLenient(hdr, tok) ==
    IF Find(hdr, tok) = 0 THEN OkList(<<>>)
    ELSE OkList(<<Find(hdr, tok) - 1>>)

\* header.index(tok): the 0-based position, ValueError when tok is no
\* element (the specification's UnknownColumn)
HeaderIndex(hdr, tok) ==
    IF Find(hdr, tok) = 0 THEN RaiseList("ValueError")
    ELSE OkList(<<Find(hdr, tok) - 1>>)

\* int(tok) in a try that swallows every exception
IndexOrNothing(i) == IF i.ok THEN OkList(<<IntOf(i.v)>>) ELSE OkList(<<>>)

\* one turn of the loop of _get_column_indexes
TokenIndexes(tok, hdr, no_header) ==
    IF tok = <<>> THEN OkList(<<>>)
    ELSE IF no_header THEN IndexOrNothing(IntOfText(tok))
    ELSE HeaderIndex(hdr, tok)

\* this, then rest unless this raised
ThenList(this, rest) ==
    IF ~this.ok THEN this
    ELSE IF ~rest.ok THEN rest
    ELSE OkList(this.l \o rest.l)

RECURSIVE ResolveTokens(_, _, _)
\* the loop of _get_column_indexes over column_names_or_indexes
ResolveTokens(tokens, hdr, no_header) ==
    IF tokens = <<>> THEN OkList(<<>>)
    ELSE ThenList(TokenIndexes(Head(tokens), hdr, no_header),
                 ResolveTokens(Tail(tokens), hdr, no_header))

\* the tokens of a column spec: split at the commas when it has one
TokensOf(spec) ==
    IF spec # <<>> /\ Find(spec, ",") # 0 THEN Split(spec, ",") ELSE <<spec>>

_get_column_indexes(hdr, column_name, m) ==
    ResolveTokens(TokensOf(m[column_name]), hdr, m.no_header)

\* values[index] as Python indexes a list: a negative index counts from
\* the end
Item(values, index) ==
    IF index >= 0 THEN values[index + 1] ELSE values[Len(values) + index + 1]

RECURSIVE Collect(_, _)
\* the list comprehension of _get_values_from_column: the cells at the
\* indexes that pass "index <= max_index", in list order; IndexError when
\* such an index lies before the start of the row
Collect(values, indexes) ==
    IF indexes = <<>> THEN OkList(<<>>)
    ELSE IF Head(indexes) <= Len(values) - 1
    THEN IF Head(indexes) < -Len(values) THEN RaiseList("IndexError")
         ELSE ThenList(OkList(<<Item(values, Head(indexes))>>),
                      Collect(values, Tail(indexes)))
    ELSE Collect(values, Tail(indexes))

\* the end of _get_values_from_column: the texts joined, or the first
\* value
JoinOrFirst(c) ==
    IF ~c.ok THEN Raise(c.err)
    ELSE IF \A i \in 1..Len(c.l) : c.l[i].ty = "str"
    THEN Ok(Str(Join([i \in 1..Len(c.l) |-> c.l[i].s])))
    ELSE Ok(c.l[1])

_get_values_from_column(values, cols, column_name) ==
    JoinOrFirst(Collect(values, cols[column_name]))

\* str.replace(old, new), old being empty or one character
ReplaceSep(s, old, new) == IF old = <<>> THEN s ELSE Replace(s, old[1], new)

_parse_decimal(value, m) ==
    CASE value.ty = "Decimal" -> Ok(value)
      [] value.ty = "float" -> Ok(Dec(value.neg, value.n, value.frac))
      [] value.ty = "str" ->
            DecimalOfText(
                ReplaceSep(ReplaceSep(value.s, _get_float_separators(m)[1], <<>>),
                           _get_float_separators(m)[2], <<".">>))
      [] value.ty = "datetime" -> Raise("TypeError")
      [] OTHER -> Raise("AttributeError")

\* g parsed as a decimal, unless reading it raised
ParsedDecimal(g, m) == IF ~g.ok THEN g ELSE _parse_decimal(g.v, m)

\* the local function _decimal of _parse_row
_decimal(m, values, cols, column_name) ==
    IF cols[column_name] # <<>>
    THEN ParsedDecimal(_get_values_from_column(values, cols, column_name), m)
    ELSE Ok(None)

\* amount = -abs(_decimal("amount_credit_column") or 0)
FromCredit(c) == IF ~c.ok THEN c ELSE Ok(Negate(Abs(OrZero(c.v))))

\* FromDebit as it would be without abs(): the debit value keeps its sign
FromDebitSigned(d, m, values, cols) ==
    IF ~d.ok THEN d
    ELSE IF Truthy(OrZero(d.v)) THEN Ok(OrZero(d.v))
    ELSE FromCredit(_decimal(m, values, cols, "amount_credit_column"))

\* amount = abs(_decimal("amount_debit_column") or 0), and the credit
\* column when that is nothing
FromDebit(d, m, values, cols) ==
    IF ~d.ok THEN d
    ELSE IF Truthy(Abs(OrZero(d.v))) THEN Ok(Abs(OrZero(d.v)))
    ELSE FromCredit(_decimal(m, values, cols, "amount_credit_column"))

\* amount = _decimal("amount_column"), and the debit column when that is
\* nothing
FromAmount(a, m, values, cols) ==
    IF ~a.ok THEN a
    ELSE IF Truthy(a.v) THEN a
    ELSE FromDebit(_decimal(m, values, cols, "amount_debit_column"), m, values, cols)

\* _parse_row, the amount before the debit/credit indicator; a column is
\* read only when the ones before it gave nothing
BaseAmount(m, values, cols) ==
    FromAmount(_decimal(m, values, cols, "amount_column"), m, values, cols)

\* the class of the first exception among results taken in order, "" if
\* none raised
RECURSIVE FirstError(_)
FirstError(rs) ==
    IF rs = <<>> THEN ""
    ELSE IF ~Head(rs).ok THEN Head(rs).err
    ELSE FirstError(Tail(rs))

\* the optional keys of a line and the fields they come from
OptionalKeys ==
    << <<"transaction_id", "transaction_id_column">>,
       <<"description", "description_column">>,
       <<"notes", "notes_column">>,
       <<"reference", "reference_column">>,
       <<"partner_name", "partner_name_column">>,
       <<"bank_name", "bank_name_column">>,
       <<"bank_account", "bank_account_column">> >>

OptionalKey == [i \in DOMAIN OptionalKeys |-> OptionalKeys[i][1]]

\* the position of k in l
PosOf(l, k) == CHOOSE i \in DOMAIN l : l[i] = k

\* the value of a field when it is configured, else None
OptionalValue(values, cols, f) ==
    IF cols[f] # <<>> THEN _get_values_from_column(values, cols, f) ELSE Ok(None)

\* what a call of _parse_row did: kind is "line" (a line is returned),
\* "skip" ({} is returned) or "raise"; base, debit_credit and currency are
\* history: the amount before the indicator, the indicator cell and the
\* resolved currency
Outcome(k, line, e, base, debit_credit, currency) ==
    [kind |-> k, line |-> line, err |-> e,
     base |-> base, debit_credit |-> debit_credit.v, currency |-> currency.v]

\* lines 277-280: the indicator forces the sign
Indicated(base, debit_credit, m) ==
    IF Truthy(debit_credit.v)
    THEN IF ~copy_abs(base.v).ok THEN copy_abs(base.v)
         ELSE IF debit_credit.v = Str(m.debit_value)
         THEN Ok(Negate(copy_abs(base.v).v))
         ELSE copy_abs(base.v)
    ELSE base

\* lines 282-287: the foreign amount takes the sign of the amount
SignedLike(p, amount) == IF ~p.ok THEN p ELSE copy_sign(p.v, amount.v)

OriginalAmount(original_amount, amount, m) ==
    IF Truthy(original_amount.v)
    THEN SignedLike(_parse_decimal(original_amount.v, m), amount)
    ELSE Ok(Float(FALSE, 0, 0))

\* lines 289-312: the line; its key "src_row" is history, the physical row
\* the line was built from
LineOf(ts, bal, amount, oamt, currency, original_currency, text, src_row) ==
    [timestamp |-> ts.v,
     amount |-> amount.v,
     currency |-> currency.v,
     original_amount |-> oamt.v,
     original_currency |-> original_currency.v,
     src_row |-> IntV(src_row)]
    @@ [k \in {x \in {"balance"} : bal.v # None} |-> bal.v]
    @@ [k \in {OptionalKey[i] : i \in {j \in DOMAIN OptionalKey : text[j].v # None}}
          |-> text[PosOf(OptionalKey, k)].v]

\* lines 273-312, the values parsed
Built(ts, bal, amount, oamt, base, currency, original_currency, debit_credit, text, src_row) ==
    IF FirstError(<<ts, bal, amount, oamt>>) # ""
    THEN Outcome("raise", <<>>, FirstError(<<ts, bal, amount, oamt>>),
                 base, debit_credit, currency)
    ELSE Outcome("line",
                 LineOf(ts, bal, amount, oamt, currency, original_currency,
                        text, src_row),
                 "", base, debit_credit, currency)

\* lines 273-287, the amount known
WithAmount(m, amount, timestamp, currency, base, balance, original_currency, original_amount, debit_credit, text, src_row) ==
    Built(IF timestamp.v.ty = "str"
          THEN Strptime(timestamp.v.s, m.timestamp_format) ELSE timestamp,
          IF Truthy(balance.v) THEN _parse_decimal(balance.v, m) ELSE Ok(None),
          amount,
          OriginalAmount(original_amount, amount, m),
          base, currency, original_currency, debit_credit, text, src_row)

\* the filter as it would be with the test of line 270 left out
NeverForeign(currency, home) == FALSE

\* line 270: currency != currency_code
Foreign(currency, home) == currency.v # home

\* lines 270-312, the cells read
Read(m, home, timestamp, currency, base, balance, original_currency, original_amount, debit_credit, text, src_row) ==
    IF FirstError(<<timestamp, currency, base, balance, original_currency,
                    original_amount, debit_credit>> \o text) # ""
    THEN Outcome("raise", <<>>,
                 FirstError(<<timestamp, currency, base, balance,
                              original_currency, original_amount,
                              debit_credit>> \o text),
                 base, debit_credit, currency)
    ELSE IF Foreign(currency, home)
    THEN Outcome("skip", <<>>, "", base, debit_credit, currency)
    ELSE WithAmount(m, Indicated(base, debit_credit, m), timestamp, currency,
                    base, balance, original_currency, original_amount,
                    debit_credit, text, src_row)

\* _parse_row(mapping, currency_code, values, columns); src_row is history
_parse_row(m, home, values, cols, src_row) ==
    Read(m, home,
         _get_values_from_column(values, cols, "timestamp_column"),
         IF cols["currency_column"] # <<>>
         THEN _get_values_from_column(values, cols, "currency_column")
         ELSE Ok(home),
         BaseAmount(m, values, cols),
         OptionalValue(values, cols, "balance_column"),
         OptionalValue(values, cols, "original_currency_column"),
         OptionalValue(values, cols, "original_amount_column"),
         OptionalValue(values, cols, "debit_credit_column"),
         [i \in DOMAIN OptionalKeys |-> OptionalValue(values, cols, OptionalKeys[i][2])],
         src_row)

\* dict.get(k)
Get(d, k) == IF k \in DOMAIN d THEN d[k] ELSE None

\* self.env["res.currency"].search([("name", "=", name)], limit=1).id:
\* the currencies the database holds
res_currency ==
    (<<"E", "U", "R">> :> 1) @@ (<<"U", "S", "D">> :> 2)

\* whether the search finds a record
Found(name) == name.ty = "str" /\ name.s \in DOMAIN res_currency

CurrencyId(name) == IF Found(name) THEN IntV(res_currency[name.s]) ELSE None

\* the seconds of d days, as text
SecondsText(d) ==
    IF d = 0 THEN <<"0">>
    ELSE (IF d < 0 THEN <<"-">> ELSE <<>>)
         \o DigitsOf((IF d < 0 THEN -d ELSE d) * 864) \o <<"0", "0">>

\* str(int(timestamp.timestamp())) of a midnight, the server running in
\* UTC: 86400 seconds for each day since 1970-01-01 (day 25568)
EpochText(ts) == SecondsText(ts.n - 25568)

\* "%s: %s; " % (label, v) when v is something
Noted(label, v) ==
    IF Truthy(v) THEN label \o <<":", " ">> \o PyStr(v) \o <<";", " ">> ELSE <<>>

\* lines 391-403: the narration
Narration(note, notes) ==
    IF note # <<>> /\ Truthy(notes)
    THEN Str(PyStr(notes) \o <<"\n">> \o Strip(note))
    ELSE IF note # <<>> THEN Str(Strip(note))
    ELSE IF Truthy(notes) THEN notes
    ELSE Str(<<>>)

TransactionKeys ==
    {"date", "amount", "foreign_currency_id", "amount_currency", "currency_id",
     "unique_import_id", "payment_ref", "ref", "narration", "partner_name",
     "account_number", "src_row"}

\* the transaction of a line, original_currency and original_amount being
\* what lines 359-363 left in them and note the narration; "amount" is
\* written from the line's amount (line 356) before "amount =
\* original_amount" (line 362) assigns the local name, which nothing reads
\* again
Transaction(line, original_currency, original_amount, note) ==
    [k \in {x \in TransactionKeys :
              CASE x = "foreign_currency_id" ->
                      Truthy(original_currency) /\ Found(original_currency)
                [] x = "amount_currency" ->
                      Truthy(original_currency) /\ Truthy(original_amount)
                [] x = "currency_id" ->
                      Truthy(line["currency"]) /\ Found(line["currency"])
                [] x = "unique_import_id" -> Truthy(Get(line, "transaction_id"))
                [] x = "ref" -> Truthy(Get(line, "reference"))
                [] x = "narration" -> Truthy(note)
                [] x = "partner_name" -> Truthy(Get(line, "partner_name"))
                [] x = "account_number" -> Truthy(Get(line, "bank_account"))
                [] OTHER -> TRUE} |->
        CASE k = "date" -> line["timestamp"]
          [] k = "amount" -> Str(PyStr(line["amount"]))
          [] k = "foreign_currency_id" -> CurrencyId(original_currency)
          [] k = "amount_currency" -> Str(PyStr(original_amount))
          [] k = "currency_id" -> CurrencyId(line["currency"])
          [] k = "unique_import_id" ->
                Str(PyStr(Get(line, "transaction_id")) \o <<"-">>
                    \o EpochText(line["timestamp"]))
          [] k = "payment_ref" ->
                IF Truthy(Get(line, "description")) THEN Get(line, "description")
                ELSE Str(<<"N", "/", "A">>)
          [] k = "ref" -> Get(line, "reference")
          [] k = "narration" -> note
          [] k = "partner_name" -> Get(line, "partner_name")
          [] k = "account_number" -> Get(line, "bank_account")
          [] OTHER -> line["src_row"]]

\* _convert_line_to_transactions: the one transaction of a line, whose key
\* "src_row" is history
_convert_line_to_transactions(line) ==
    << Transaction(
           line,
           IF line["original_currency"] = line["currency"]
           THEN None ELSE line["original_currency"],
           IF line["original_currency"] = line["currency"]
           THEN Str(<<"0", ".", "0">>) ELSE line["original_amount"],
           Narration(Noted(<<"B", "a", "n", "k">>, Get(line, "bank_name"))
                     \o Noted(<<"A", "c", "c", "o", "u", "n", "t">>,
                              Get(line, "bank_account"))
                     \o Noted(<<"T", "r", "a", "n", "s", "a", "c", "t", "i", "o",
                                "n", " ", "I", "D">>,
                              Get(line, "transaction_id")),
                     Get(line, "notes"))) >>

\* whether key a sorts before key b (values of one type)
KeyLess(a, b) == Scaled(a, Max(a.frac, b.frac)) < Scaled(b, Max(a.frac, b.frac))

RECURSIVE InsertLineBeforeTies(_, _)
\* InsertLine as a sort that is not stable would do it: x goes before the
\* lines of its own timestamp
InsertLineBeforeTies(s, x) ==
    IF s = <<>> THEN <<x>>
    ELSE IF ~KeyLess(s[Len(s)]["timestamp"], x["timestamp"])
    THEN Append(InsertLineBeforeTies(SubSeq(s, 1, Len(s) - 1), x), s[Len(s)])
    ELSE Append(s, x)

RECURSIVE InsertLine(_, _)
\* s with line x put after the lines whose timestamp is not later
InsertLine(s, x) ==
    IF s = <<>> THEN <<x>>
    ELSE IF KeyLess(x["timestamp"], s[Len(s)]["timestamp"])
    THEN Append(InsertLine(SubSeq(s, 1, Len(s) - 1), x), s[Len(s)])
    ELSE Append(s, x)

RECURSIVE SortedLines(_)
\* sorted(lines, key=lambda line: line["timestamp"]): stable
SortedLines(ls) ==
    IF ls = <<>> THEN <<>>
    ELSE InsertLine(SortedLines(SubSeq(ls, 1, Len(ls) - 1)), ls[Len(ls)])

---------------------------------------------------------------------------
(* The call parse(data_file, mapping, filename) *)

\* the journal of the context: its own currency is not set, the
\* company's is EUR
journal ==
    [currency_id |-> <<>>,
     company_currency |-> <<"E", "U", "R">>,
     acc_number |-> <<"N", "L", "0", "1">>,
     code |-> <<"B", "N", "K">>]

filename == <<"u", "p", "/", "s", ".", "c", "s", "v">>

currency_code ==
    IF journal.currency_id # <<>> THEN journal.currency_id
    ELSE journal.company_currency

account_number == journal.acc_number

NoResult == [currency_code |-> <<>>, account_number |-> <<>>, statements |-> <<>>]

NoCall ==
    [kind |-> "none", line |-> <<>>, err |-> "", base |-> Ok(None),
     debit_credit |-> None, currency |-> None, values |-> <<>>]

RECURSIVE Chain(_)
\* itertools.chain.from_iterable
Chain(ls) == IF ls = <<>> THEN <<>> ELSE Head(ls) \o Chain(Tail(ls))

\* what parse does: it returns result or raises err
Returned(data, transactions) ==
    [ok |-> TRUE, err |-> "",
     result |-> [currency_code |-> currency_code,
                 account_number |-> account_number,
                 statements |-> << [data |-> data, transactions |-> transactions] >>]]

Raised(e) == [ok |-> FALSE, err |-> e, result |-> NoResult]

\* lines 76-84: the balances
Balances(first_line, last_line) ==
    [balance_start |-> ToFloat(Minus(first_line["balance"], first_line["amount"])),
     balance_end_real |-> ToFloat(last_line["balance"])]

\* lines 66-92, the lines sorted
Sorted(m, sorted) ==
    IF sorted[1]["timestamp"].ty # "datetime" THEN Raised("AttributeError")
    ELSE IF m["balance_column"] # <<>>
            /\ ("balance" \notin DOMAIN sorted[1]
                \/ "balance" \notin DOMAIN sorted[Len(sorted)])
    THEN Raised("KeyError")
    ELSE Returned(
            [date |-> DateOf(sorted[1]["timestamp"]),
             name |-> Str(journal.code \o <<":", " ">> \o Basename(filename))]
            @@ (IF m["balance_column"] # <<>>
                THEN Balances(sorted[1], sorted[Len(sorted)])
                ELSE <<>>),
            Chain([i \in 1..Len(sorted) |-> _convert_line_to_transactions(sorted[i])]))

\* Statement as it would be without the test of line 62: the name is
\* given to a statement without lines too
StatementAlwaysNamed(m, ls) ==
    IF ls = <<>>
    THEN Returned([name |-> Str(journal.code \o <<":", " ">> \o Basename(filename))],
                  <<>>)
    ELSE IF \E i, j \in 1..Len(ls) : ls[i]["timestamp"].ty # ls[j]["timestamp"].ty
    THEN Raised("TypeError")
    ELSE Sorted(m, SortedLines(ls))

\* the body of parse once _parse_lines has returned the lines; sorted()
\* raises TypeError when it compares timestamps of two types
Statement(m, ls) ==
    IF ls = <<>> THEN Returned(<<>>, <<>>)
    ELSE IF \E i, j \in 1..Len(ls) : ls[i]["timestamp"].ty # ls[j]["timestamp"].ty
    THEN Raised("TypeError")
    ELSE Sorted(m, SortedLines(ls))

\* a header cell as row_values(0) gives it: a date cell is its serial
\* number, a float
RowValue(cell) == IF cell.ty = "xldate" THEN Float(FALSE, cell.n, 0) ELSE cell

\* a data cell as _parse_rows hands it on: a date cell becomes a datetime
CellValue(cell) == IF cell.ty = "xldate" THEN xldate_as_datetime(cell.n) ELSE cell

\* the values of a physical row: the cells of a sheet's row converted, the
\* texts of a csv row
ValuesOf(k, row) ==
    IF k = "xlsx" THEN [i \in 1..Len(row) |-> CellValue(row[i])] ELSE row

\* _parse_lines up to the header: the source is open (kind), the header
\* is False or the texts of the first row
ReadHeader ==
    /\ pc = "open"
    /\ IF mapping.no_header
       THEN /\ header' = <<>>
            /\ pos' = 1
            /\ pc' = "resolve"
            /\ err' = ""
       ELSE IF file = <<>>
       THEN /\ header' = <<>>
            /\ pos' = 1
            /\ pc' = "raised"
            /\ err' = IF kind = "xlsx" THEN "IndexError" ELSE "StopIteration"
       ELSE /\ header' =
                  IF kind = "xlsx"
                  THEN [i \in 1..Len(file[1]) |-> PyStr(RowValue(file[1][i]))]
                  ELSE [i \in 1..Len(file[1]) |-> Strip(file[1][i].s)]
            /\ pos' = IF kind = "xlsx" THEN 1 ELSE 2
            /\ pc' = "resolve"
            /\ err' = ""
    /\ UNCHANGED <<kind, mapping, file, columns, lines, fed, last, result>>

\* the columns dict resolved (r), or the first exception of resolving it
Resolved(r) ==
    IF FirstError(r) # ""
    THEN /\ pc' = "raised"
         /\ err' = FirstError(r)
         /\ UNCHANGED <<columns, pos>>
    ELSE /\ columns' = [f \in ColumnNames |-> r[PosOf(_get_column_names, f)].l]
         /\ pos' = IF kind = "xlsx" THEN 2 ELSE pos
         /\ pc' = "rows"
         /\ err' = ""

\* _parse_lines, the columns dict, and the first lines of _parse_rows: a
\* sheet is read from its second row on, a csv reader from where the
\* header left it
ResolveColumns ==
    /\ pc = "resolve"
    /\ Resolved([i \in DOMAIN _get_column_names |->
                    _get_column_indexes(header, _get_column_names[i], mapping)])
    /\ UNCHANGED <<kind, mapping, file, header, lines, fed, last, result>>

\* the row handed to _parse_row as values, and what the call did (r)
Parsed(values, r) ==
    /\ fed' = Append(fed, pos)
    /\ last' = r @@ [values |-> values]
    /\ lines' = IF r.kind = "line" THEN Append(lines, r.line) ELSE lines
    /\ pc' = IF r.kind = "raise" THEN "raised" ELSE "rows"
    /\ err' = r.err
    /\ pos' = pos + 1

\* one turn of the loop of _parse_rows
ParseRowStep ==
    /\ pc = "rows"
    /\ pos <= Len(file)
    /\ Parsed(ValuesOf(kind, file[pos]),
              _parse_row(mapping, Str(currency_code), ValuesOf(kind, file[pos]),
                         columns, pos))
    /\ UNCHANGED <<kind, mapping, file, header, columns, result>>

\* parse ends as st says
Ended(st) ==
    /\ pc' = IF st.ok THEN "done" ELSE "raised"
    /\ err' = st.err
    /\ result' = st.result

\* the rows are exhausted: _parse_lines returns and parse builds the
\* statement
Assemble ==
    /\ pc = "rows"
    /\ pos > Len(file)
    /\ Ended(Statement(mapping, lines))
    /\ UNCHANGED <<kind, mapping, file, header, columns, pos, lines, fed, last>>

Next == ReadHeader \/ ResolveColumns \/ ParseRowStep \/ Assemble

---------------------------------------------------------------------------
(* The inputs *)

\* the most data rows of a source with several rows
MaxRows == 2

\* a physical column: its header name, the logical field mapped to it, the
\* texts a csv source holds there and the cells a sheet holds there
Col(name, field, csv, xlsx) ==
    [name |-> name, field |-> field, csv |-> csv, xlsx |-> xlsx]

cDt ==
    Col(<<"D", "t">>, "timestamp_column",
        {<<"1">>, <<"2">>}, {XlDate(1), XlDate(2)})
cDt1 ==
    Col(<<"D", "t">>, "timestamp_column", {<<"1">>}, {XlDate(1)})
cAm ==
    Col(<<"A", "m">>, "amount_column",
        {<<>>, <<"0">>, <<"5">>, <<"-", "5", ".", "5", "0">>},
        {Str(<<>>), Float(FALSE, 0, 0), Float(FALSE, 5, 0), Float(TRUE, 55, 1)})
cAm2 ==
    Col(<<"A", "m">>, "amount_column",
        {<<"5">>, <<"-", "5", ".", "5", "0">>},
        {Float(FALSE, 5, 0), Float(TRUE, 55, 1)})
cDb ==
    Col(<<"D", "b">>, "amount_debit_column",
        {<<>>, <<"0">>, <<"3">>, <<"-", "3">>},
        {Str(<<>>), Float(FALSE, 0, 0), Float(FALSE, 3, 0), Float(TRUE, 3, 0)})
cCr ==
    Col(<<"C", "r">>, "amount_credit_column",
        {<<>>, <<"0">>, <<"4">>, <<"-", "4">>},
        {Str(<<>>), Float(FALSE, 0, 0), Float(FALSE, 4, 0), Float(TRUE, 4, 0)})
cCu ==
    Col(<<"C", "u">>, "currency_column",
        {<<"E", "U", "R">>, <<"U", "S", "D">>},
        {Str(<<"E", "U", "R">>), Str(<<"U", "S", "D">>)})
cBa ==
    Col(<<"B", "a">>, "balance_column",
        {<<>>, <<"0">>, <<"1", ",", "0", "1", "0", ".", "2", "5">>},
        {Str(<<>>), Float(FALSE, 0, 0), Float(FALSE, 101025, 2)})
cDC ==
    Col(<<"D", "C">>, "debit_credit_column",
        {<<>>, <<"D">>, <<"C">>},
        {Str(<<>>), Str(<<"D">>), Str(<<"C">>)})
cOA ==
    Col(<<"O", "A">>, "original_amount_column",
        {<<>>, <<"7">>, <<"-", "7">>},
        {Str(<<>>), Float(FALSE, 7, 0), Float(TRUE, 7, 0)})
cOC ==
    Col(<<"O", "C">>, "original_currency_column",
        {<<"E", "U", "R">>, <<"U", "S", "D">>},
        {Str(<<"E", "U", "R">>), Str(<<"U", "S", "D">>)})
cDe ==
    Col(<<"D", "e">>, "description_column", {<<"x">>}, {Str(<<"x">>)})

\* the columns a one-row source may have besides the date
Optional == <<cAm, cDb, cCr, cCu, cDC, cOA, cOC>>

RECURSIVE SubLayout(_, _)
\* the columns of Optional whose position is in S, from position i on
SubLayout(i, S) ==
    IF i > Len(Optional) THEN <<>>
    ELSE (IF i \in S THEN <<Optional[i]>> ELSE <<>>) \o SubLayout(i + 1, S)

\* the layouts of the sources with one data row
RowLayouts == {<<cDt1>> \o SubLayout(1, S) : S \in SUBSET (1..Len(Optional))}

\* the layouts of the sources with up to MaxRows data rows
FileLayouts == {<<cDt, cAm2>>, <<cDt, cAm2, cCu>>, <<cDt, cAm2, cBa>>}

\* the layout of the sources read with the column specs of Overrides
TokenLayout == <<cDt1, cAm2, cDe>>

Cells(col, k) == IF k = "csv" THEN {Str(t) : t \in col.csv} ELSE col.xlsx

RECURSIVE RowsOf(_, _)
\* the rows a source of kind k may hold under a layout
RowsOf(layout, k) ==
    IF layout = <<>> THEN {<<>>}
    ELSE {<<c>> \o r : c \in Cells(Head(layout), k), r \in RowsOf(Tail(layout), k)}

RECURSIVE SeqsUpTo(_, _)
\* the sequences of at most n elements of R
SeqsUpTo(R, n) ==
    IF n = 0 THEN {<<>>}
    ELSE LET S == SeqsUpTo(R, n - 1)
         IN  S \cup {Append(q, r) : q \in {x \in S : Len(x) = n - 1}, r \in R}

\* the header row of a layout; padded, each name has a blank on either side
HeaderRow(layout, padded) ==
    [i \in 1..Len(layout) |->
        Str(IF padded THEN <<" ">> \o layout[i].name \o <<" ">>
            ELSE layout[i].name)]

\* the column spec of field f under a layout: the name of its column, or
\* without a header its 0-based index
SpecOf(layout, f, no_header) ==
    IF \E i \in 1..Len(layout) : layout[i].field = f
    THEN LET i == CHOOSE i \in 1..Len(layout) : layout[i].field = f
         IN  IF no_header THEN DigitsOf(i - 1) ELSE layout[i].name
    ELSE <<>>

Settings(no_header) ==
    [no_header |-> no_header,
     debit_value |-> <<"D">>,
     timestamp_format |-> <<"%", "d">>,
     float_thousands_sep |-> <<",">>,
     float_decimal_sep |-> <<".">>]

MappingFor(layout, no_header) ==
    [f \in ColumnNames |-> SpecOf(layout, f, no_header)] @@ Settings(no_header)

\* column specs that are not the plain name or index of a column:
\* <<no_header, field, spec>>
Overrides ==
    { <<FALSE, "description_column", <<"Z", "z">> >>,
      <<FALSE, "description_column", <<"D", "e", ",", "Z", "z">> >>,
      <<FALSE, "description_column", <<",", "D", "e">> >>,
      <<FALSE, "description_column", <<" ", "D", "e">> >>,
      <<FALSE, "amount_column", <<"Z", "z">> >>,
      <<FALSE, "notes_column", <<"D", "e", ",", "A", "m">> >>,
      <<FALSE, "bank_account_column", <<"D", "e", ",", "Z", "z", ",", "A", "m">> >>,
      <<TRUE, "description_column", <<"-", "1">> >>,
      <<TRUE, "description_column", <<"7">> >>,
      <<TRUE, "description_column", <<"1", ",", "2">> >>,
      <<TRUE, "description_column", <<"2", ",", "-", "1">> >>,
      <<TRUE, "description_column", <<"x">> >>,
      <<TRUE, "description_column", <<"-", "9">> >>,
      <<TRUE, "description_column", <<"0", ",", ",", "2">> >>,
      <<TRUE, "description_column", <<" ", "2">> >>,
      <<TRUE, "timestamp_column", <<"-", "3">> >>,
      <<TRUE, "currency_column", <<"x">> >> }

Start ==
    /\ pc = "open"
    /\ header = <<>>
    /\ columns = [f \in ColumnNames |-> <<>>]
    /\ pos = 1
    /\ lines = <<>>
    /\ fed = <<>>
    /\ last = NoCall
    /\ err = ""
    /\ result = NoResult

\* sources with up to MaxRows data rows
InitFile ==
    \E layout \in FileLayouts, k \in {"csv", "xlsx"}, nh \in BOOLEAN :
        /\ kind = k
        /\ mapping = MappingFor(layout, nh)
        /\ \E data \in SeqsUpTo(RowsOf(layout, k), MaxRows) :
              file = (IF nh THEN <<>> ELSE <<HeaderRow(layout, FALSE)>>) \o data

\* sources with a header and one data row, over every set of columns
InitRow ==
    \E layout \in RowLayouts, k \in {"csv", "xlsx"} :
        /\ kind = k
        /\ mapping = MappingFor(layout, FALSE)
        /\ \E row \in RowsOf(layout, k) :
              file = <<HeaderRow(layout, FALSE), row>>

\* sources read with an unusual column spec, and sources with nothing in
\* them
InitTokens ==
    \E o \in Overrides, k \in {"csv", "xlsx"}, padded \in BOOLEAN :
        /\ kind = k
        /\ mapping = [MappingFor(TokenLayout, o[1]) EXCEPT ![o[2]] = o[3]]
        /\ \E data \in SeqsUpTo(RowsOf(TokenLayout, k), MaxRows) :
              file \in { (IF o[1] THEN <<>> ELSE <<HeaderRow(TokenLayout, padded)>>)
                         \o data,
                         <<>> }

Init == Start /\ (InitFile \/ InitRow \/ InitTokens)

Spec == Init /\ [][Next]_vars

---------------------------------------------------------------------------
(* The claims *)

\* the home currency as a value
Home == Str(currency_code)

\* the transactions parse returned
Transactions == result.statements[1].transactions

\* the data of the statement parse returned
Data == result.statements[1].data

\* the physical row the last call of _parse_row was given
LastRow == fed[Len(fed)]

\* whether a line came from physical row p
HasLineOf(p) == \E i \in 1..Len(lines) : lines[i]["src_row"] = IntV(p)

\* C1. Currency filter: every line _parse_rows collects has the home
\* currency, the currency cell of the row it came from holds the home
\* currency, and a call of _parse_row whose resolved currency differs from
\* the home currency returns no line, so that its row contributes none.
CurrencyFilter ==
    /\ \A i \in 1..Len(lines) :
          /\ lines[i]["currency"] = Home
          /\ Len(columns["currency_column"]) = 1 =>
                ValuesOf(kind, file[IntOf(lines[i]["src_row"])])
                    [columns["currency_column"][1] + 1] = Home
    /\ last.kind \in {"line", "skip"} =>
          /\ (last.currency # Home) <=> (last.kind = "skip")
          /\ HasLineOf(LastRow) <=> (last.kind = "line")

\* a source of two rows, the first in the home currency and the second not,
\* has been read to its end: one line, one transaction
CurrencyFilterWitness ==
    /\ pc = "done"
    /\ Len(fed) = 2
    /\ last.kind = "skip"
    /\ last.currency = Str(<<"U", "S", "D">>)
    /\ Len(lines) = 1
    /\ Len(Transactions) = 1

\* the cells of the three amount columns in the last row, parsed
AmountCell == _decimal(mapping, last.values, columns, "amount_column")
DebitCell == _decimal(mapping, last.values, columns, "amount_debit_column")
CreditCell == _decimal(mapping, last.values, columns, "amount_credit_column")

\* whether a cell holds a number that is not zero
NonZero(c) == c.ok /\ Truthy(c.v)

\* whether a cell holds nothing or zero
Nothing(c) == c.ok /\ ~Truthy(c.v)

\* C2. Base amount: the amount before the indicator is the amount cell
\* when that is not zero; otherwise the absolute value of the debit cell
\* when that is not zero; otherwise minus the absolute value of the credit
\* cell when that is not zero; and zero when all three are nothing.  A cell
\* of lower priority changes nothing once a higher one is not zero.
BasePriority ==
    last.kind # "none" =>
        /\ NonZero(AmountCell) => last.base = AmountCell
        /\ (Nothing(AmountCell) /\ NonZero(DebitCell)) =>
              last.base = Ok(Dec(FALSE, DebitCell.v.n, DebitCell.v.frac))
        /\ (Nothing(AmountCell) /\ Nothing(DebitCell) /\ NonZero(CreditCell)) =>
              last.base = Ok(Dec(TRUE, CreditCell.v.n, CreditCell.v.frac))
        /\ (Nothing(AmountCell) /\ Nothing(DebitCell) /\ Nothing(CreditCell)) =>
              last.base = Ok(IntV(0))

\* a row with a zero amount cell, a negative debit cell and a credit cell
\* became a line whose amount is the debit's absolute value
BasePriorityWitness ==
    /\ last.kind = "line"
    /\ columns["amount_column"] # <<>>
    /\ Nothing(AmountCell)
    /\ NonZero(DebitCell)
    /\ DebitCell.v.neg
    /\ columns["amount_credit_column"] # <<>>
    /\ NonZero(CreditCell)
    /\ last.line["amount"] = Dec(FALSE, DebitCell.v.n, DebitCell.v.frac)

\* C3. Indicator override, as the specification states it: with an
\* indicator column configured, every row that passes the currency filter
\* becomes a line whose amount is the absolute value of the base amount,
\* negated exactly when the indicator cell equals the debit token.
IndicatorOverrides ==
    (/\ last.kind \in {"line", "raise"}
     /\ columns["debit_credit_column"] # <<>>
     /\ last.base.ok
     /\ last.currency = Home
     /\ last.err \in {"", "AttributeError"})
    => /\ last.kind = "line"
       /\ last.line["amount"] =
             IF last.debit_credit = Str(mapping.debit_value)
             THEN Negate(Abs(last.base.v))
             ELSE Abs(last.base.v)

\* whether timestamp a is earlier than timestamp b
Earlier(a, b) == a.n < b.n

\* the line the sort puts first, and the one it puts last
FirstLine ==
    lines[CHOOSE i \in 1..Len(lines) :
            \A j \in 1..Len(lines) :
                \/ Earlier(lines[i]["timestamp"], lines[j]["timestamp"])
                \/ (lines[i]["timestamp"] = lines[j]["timestamp"] /\ i <= j)]
LastLine ==
    lines[CHOOSE i \in 1..Len(lines) :
            \A j \in 1..Len(lines) :
                \/ Earlier(lines[j]["timestamp"], lines[i]["timestamp"])
                \/ (lines[i]["timestamp"] = lines[j]["timestamp"] /\ j <= i)]

\* C4. Balance invariant, as the specification states it: with a balance
\* column configured and every row parsed into a line, parse returns a
\* statement whose balance_start is the first line's balance minus its
\* amount and whose balance_end_real is the last line's balance.
BalanceInvariant ==
    (/\ mapping["balance_column"] # <<>>
     /\ lines # <<>>
     /\ last.kind = "line"
     /\ pc \in {"done", "raised"})
    => /\ pc = "done"
       /\ Data["balance_start"] =
             ToFloat(Minus(FirstLine["balance"], FirstLine["amount"]))
       /\ Data["balance_end_real"] = ToFloat(LastLine["balance"])

\* C5. Sorting: parse returns one transaction for each line, in
\* non-decreasing order of timestamp, and transactions of one timestamp are
\* in the order of their rows in the source.
SortedStable ==
    pc = "done" =>
        /\ Len(Transactions) = Len(lines)
        /\ \A i \in 1..Len(lines) :
              \E j \in 1..Len(Transactions) :
                  /\ Transactions[j]["src_row"] = lines[i]["src_row"]
                  /\ Transactions[j]["date"] = lines[i]["timestamp"]
        /\ \A i, j \in 1..Len(Transactions) :
              i < j =>
                  /\ ~Earlier(Transactions[j]["date"], Transactions[i]["date"])
                  /\ Transactions[i]["date"] = Transactions[j]["date"] =>
                        IntOf(Transactions[i]["src_row"])
                            < IntOf(Transactions[j]["src_row"])

\* a source whose second row is earlier than its first has been read to
\* its end: the sort has changed the order
SortedStableWitness ==
    /\ pc = "done"
    /\ Len(lines) = 2
    /\ Earlier(lines[2]["timestamp"], lines[1]["timestamp"])
    /\ Transactions[1]["src_row"] = lines[2]["src_row"]

\* the tokens of a field's column spec that are not empty
Tokens(f) ==
    {Split(mapping[f], ",")[i] : i \in DOMAIN Split(mapping[f], ",")} \ {<<>>}

\* whether some token of some field is no entry of the header
UnknownToken ==
    \E f \in ColumnNames :
        \E tok \in Tokens(f) : \A i \in 1..Len(header) : header[i] # tok

\* C6. Unknown column: with a header expected and read, a token that is
\* no entry of the header ends the call with the exception of
\* list.index (ValueError, the specification's UnknownColumn), no row
\* having been handed to _parse_row and no line built.
UnknownColumnFails ==
    (/\ ~mapping.no_header
     /\ file # <<>>
     /\ pc \notin {"open", "resolve"}
     /\ UnknownToken)
    => /\ pc = "raised"
       /\ err = "ValueError"
       /\ fed = <<>>
       /\ last = NoCall
       /\ lines = <<>>
       /\ result = NoResult

\* a source with a header and data rows, read with a spec that names a
\* column the header lacks after one it has, has failed
UnknownColumnWitness ==
    /\ pc = "raised"
    /\ err = "ValueError"
    /\ ~mapping.no_header
    /\ Len(file) > 1
    /\ UnknownToken
    /\ \E f \in ColumnNames :
          /\ \E tok \in Tokens(f) : \A i \in 1..Len(header) : header[i] # tok
          /\ \E tok \in Tokens(f) : \E i \in 1..Len(header) : header[i] = tok

\* what parse returns when no line parsed
EmptyStatement ==
    [currency_code |-> currency_code,
     account_number |-> account_number,
     statements |-> << [data |-> <<>>, transactions |-> <<>>] >>]

\* C7. Empty result: when the rows are exhausted and no line has parsed,
\* the next step is the return of the home currency code, the home account
\* number and one statement, with no transactions and no date, name,
\* balance_start or balance_end_real.
EmptyResult ==
    [][(pc = "rows" /\ pos > Len(file) /\ lines = <<>>)
          => (pc' = "done" /\ result' = EmptyStatement)]_vars

\* a source without data rows, read with a balance column configured, has
\* given the empty statement
EmptyResultWitness ==
    /\ pc = "done"
    /\ lines = <<>>
    /\ mapping["balance_column"] # <<>>
    /\ result = EmptyStatement

\* C8. Foreign equals home, as the specification states it: the
\* transaction of a line whose original currency is its currency has no
\* foreign currency id and no foreign amount, and when the line's amount is
\* zero and its original amount is not, the transaction's amount is the
\* original amount.
ForeignEqualsHome ==
    pc = "done" =>
        \A i \in 1..Len(lines) :
            \A j \in 1..Len(Transactions) :
                (/\ Transactions[j]["src_row"] = lines[i]["src_row"]
                 /\ lines[i]["original_currency"] = lines[i]["currency"])
                => /\ "foreign_currency_id" \notin DOMAIN Transactions[j]
                   /\ "amount_currency" \notin DOMAIN Transactions[j]
                   /\ (~Truthy(lines[i]["amount"])
                       /\ Truthy(lines[i]["original_amount"]))
                      => Transactions[j]["amount"] =
                            Str(PyStr(lines[i]["original_amount"]))

\* the physical rows that are data rows: all of them without a header, all
\* but the first with one
DataRows ==
    IF mapping.no_header THEN [i \in 1..Len(file) |-> i]
    ELSE [i \in 1..(Len(file) - 1) |-> i + 1]

\* C9. Header and data rows, as the specification states it: once a source
\* of either kind is read to its end, the rows handed to _parse_row are
\* all the rows but the header when a header is expected, and all the
\* rows when none is.
HeaderVersusData == pc = "done" => fed = DataRows

RECURSIVE ValidCells(_, _)
\* the cells of a row at the indexes that are positions in it, in list
\* order
ValidCells(values, indexes) ==
    IF indexes = <<>> THEN <<>>
    ELSE (IF 0 <= Head(indexes) /\ Head(indexes) < Len(values)
          THEN <<values[Head(indexes) + 1]>> ELSE <<>>)
         \o ValidCells(values, Tail(indexes))

\* cells joined when all are text, else the first
Extracted(c) ==
    IF \A i \in 1..Len(c) : c[i].ty = "str"
    THEN Str(Join([i \in 1..Len(c) |-> c[i].s]))
    ELSE c[1]

\* C10. Row extraction, as the specification states it: the description
\* of a row is extracted from the cells at the indexes that are positions
\* in the row (0 <= index < length) and from no other, whatever integers
\* the column spec resolved to.
RowExtraction ==
    (last.kind # "none" /\ columns["description_column"] # <<>>)
    => /\ last.kind = "line"
       /\ last.line["description"] =
             Extracted(ValidCells(last.values, columns["description_column"]))


=============================================================================
